---- MODULE Spec2Model ----
\* Model of the ROS code checker backend: the static analyser
\* (backend/validator.py), the simulation controller (backend/simulator.py)
\* and the HTTP handlers that drive them (backend/app.py).
EXTENDS Integers, Sequences, FiniteSets, TLC

\* ---------------------------------------------------------------------------
\* Bounds of the model
\* ---------------------------------------------------------------------------
\* python source files of a submission besides setup.py
MaxPyFiles == 1
\* run-simulation requests served
MaxRuns == 1

\* ---------------------------------------------------------------------------
\* Program constants
\* ---------------------------------------------------------------------------
simulation_time == 20
poll_interval == 5
NumTicks == simulation_time \div poll_interval

Runs == 1..MaxRuns

\* Request threads of the server: one more than the runs SpecSim serves, so
\* that SpecConc has a request arriving while the others are being served.
Requests == 1..(MaxRuns + 1)

\* ---------------------------------------------------------------------------
\* Submissions
\* ---------------------------------------------------------------------------
\* What the scan of one python file's text finds: the node patterns, the
\* create_publisher / create_subscription matches in source order, the
\* un-throttled loop pattern and the hardcoded value pattern.
SetupPy ==
    [name |-> "setup.py", node |-> FALSE, pubs |-> <<>>, subs |-> <<>>,
     loop |-> FALSE, value |-> FALSE]

PyFileKinds ==
    { [name |-> "talker.py", node |-> TRUE,
       pubs |-> << <<"String", "/cmd">> >>, subs |-> <<>>,
       loop |-> TRUE, value |-> FALSE],
      [name |-> "listener.py", node |-> TRUE,
       pubs |-> <<>>, subs |-> << <<"JointState", "/joint_states">> >>,
       loop |-> FALSE, value |-> FALSE],
      [name |-> "mover.py", node |-> FALSE,
       pubs |-> <<>>, subs |-> <<>>,
       loop |-> FALSE, value |-> TRUE] }

PyFileLists == UNION { [1..n -> PyFileKinds] : n \in 0..MaxPyFiles }

\* The tree a valid archive extracts to.
Trees ==
    [package_xml : BOOLEAN, cmake : BOOLEAN, setup_py : BOOLEAN,
     py : PyFileLists, cpp : BOOLEAN]

EmptyTree ==
    [package_xml |-> FALSE, cmake |-> FALSE, setup_py |-> FALSE,
     py |-> <<>>, cpp |-> FALSE]

\* An uploaded zip: either it extracts to a tree or extraction raises.
Archives == { [ok |-> TRUE, tree |-> t] : t \in Trees }
            \cup { [ok |-> FALSE, tree |-> EmptyTree] }

KeepTree(dir) == dir

\* rm -rf CODE_DIR, then makedirs: the extraction directory is empty
RemoveTree(dir) == EmptyTree

\* extractall into a directory: the archive's files are added to what is
\* there, a file of the same name is overwritten.
ExtractAll(dir, tree) ==
    LET Kept(f) == \A i \in DOMAIN tree.py : tree.py[i].name # f.name
    IN [package_xml |-> dir.package_xml \/ tree.package_xml,
        cmake |-> dir.cmake \/ tree.cmake,
        setup_py |-> dir.setup_py \/ tree.setup_py,
        py |-> tree.py \o SelectSeq(dir.py, Kept),
        cpp |-> dir.cpp \/ tree.cpp]

\* Outcome of running flake8: exit code zero, nonzero, or the call raises
\* (tool not installed).
LintOutcomes == {"zero", "nonzero", "raise"}

\* ---------------------------------------------------------------------------
\* Reports
\* ---------------------------------------------------------------------------
NoReport == [status |-> "NONE"]

EmptyDetails == [status |-> "EMPTY"]

InitialDetails ==
    [structure_check |-> "FAIL",
     python |-> "N/A",
     cpp |-> "N/A",
     nodes_found |-> 0,
     publishers |-> <<>>,
     subscribers |-> <<>>,
     safety_warnings |-> <<>>]

InitialReport ==
    [status |-> "PASS", summary |-> "Code Passed Checks",
     details |-> InitialDetails]

ExtractFailReport ==
    [status |-> "FAIL", summary |-> "Failed to extract ZIP",
     details |-> EmptyDetails]

\* all_files filtered by the .py suffix, in walk order (root first).
PythonFiles(tree) ==
    (IF tree.setup_py THEN <<SetupPy>> ELSE <<>>) \o tree.py

HasStructureOr(tree) == tree.package_xml \/ (tree.cmake \/ tree.setup_py)

HasStructure(tree) == tree.package_xml /\ (tree.cmake \/ tree.setup_py)

\* --- 2. ROS Structure Check ---
StructureStage(rep, tree) ==
    IF HasStructure(tree)
    THEN [rep EXCEPT !.details.structure_check = "PASS"]
    ELSE [rep EXCEPT !.status = "WARN",
                     !.summary = "Structure Warning: Missing package.xml or build file."]

PythonCheckLenient(rep, tree, lint) ==
    IF PythonFiles(tree) # <<>>
    THEN IF lint # "zero"
         THEN [rep EXCEPT !.details.python = "FAIL",
                          !.status = IF rep.status = "PASS" THEN "WARN" ELSE rep.status,
                          !.summary = "Code Failed: Python syntax errors found (Flake8)."]
         ELSE [rep EXCEPT !.details.python = "PASS"]
    ELSE rep

\* Python Check (Flake8), for a linter call that returned
PythonCheck(rep, tree, lint) ==
    IF PythonFiles(tree) # <<>>
    THEN IF lint # "zero"
         THEN [rep EXCEPT !.details.python = "FAIL",
                          !.status = "FAIL",
                          !.summary = "Code Failed: Python syntax errors found (Flake8)."]
         ELSE [rep EXCEPT !.details.python = "PASS"]
    ELSE rep

CppCheckFatal(rep, tree) ==
    IF tree.cpp
    THEN [rep EXCEPT !.details.cpp = "FAIL", !.status = "FAIL"]
    ELSE rep

\* C++ Check, the placeholder
CppCheck(rep, tree) ==
    IF tree.cpp THEN [rep EXCEPT !.details.cpp = "PASS"] ELSE rep

RECURSIVE CountNodes(_)
CountNodes(files) ==
    IF files = <<>> THEN 0
    ELSE (IF Head(files).node THEN 1 ELSE 0) + CountNodes(Tail(files))

Declarations(matches, file) ==
    [i \in 1..Len(matches) |->
        [topic |-> matches[i][2], type |-> matches[i][1], file |-> file]]

RECURSIVE Publishers(_)
Publishers(files) ==
    IF files = <<>> THEN <<>>
    ELSE Declarations(Head(files).pubs, Head(files).name) \o Publishers(Tail(files))

RECURSIVE Subscribers(_)
Subscribers(files) ==
    IF files = <<>> THEN <<>>
    ELSE Declarations(Head(files).subs, Head(files).name) \o Subscribers(Tail(files))

FileWarnings(f) ==
    (IF f.loop THEN << [file |-> f.name, kind |-> "loop"] >> ELSE <<>>)
    \o (IF f.value THEN << [file |-> f.name, kind |-> "value"] >> ELSE <<>>)

RECURSIVE SafetyWarnings(_)
SafetyWarnings(files) ==
    IF files = <<>> THEN <<>>
    ELSE FileWarnings(Head(files)) \o SafetyWarnings(Tail(files))

EscalateAlways(rep) ==
    IF rep.details.safety_warnings # <<>>
    THEN [rep EXCEPT !.status = "WARN",
                     !.summary = "Code Passed, but safety warnings found."]
    ELSE rep

EscalateSummaryAlways(rep) ==
    IF rep.details.safety_warnings # <<>>
    THEN [rep EXCEPT !.status = IF rep.status = "FAIL" THEN "FAIL" ELSE "WARN",
                     !.summary = "Code Passed, but safety warnings found."]
    ELSE rep

\* if safety_warnings and report["status"] != "FAIL"
Escalate(rep) ==
    IF rep.details.safety_warnings # <<>> /\ rep.status # "FAIL"
    THEN [rep EXCEPT !.status = "WARN",
                     !.summary = "Code Passed, but safety warnings found."]
    ELSE rep

\* --- 4. ROS Node Analysis & Safety Heuristics ---
AnalysisStage(rep, tree) ==
    LET files == PythonFiles(tree)
        r1 == [rep EXCEPT !.details.publishers = Publishers(files),
                          !.details.subscribers = Subscribers(files),
                          !.details.nodes_found = CountNodes(files),
                          !.details.safety_warnings = SafetyWarnings(files)]
    IN Escalate(r1)

\* ---------------------------------------------------------------------------
\* State
\* ---------------------------------------------------------------------------
VARIABLES
    apc,                \* position of the upload handler / analyser
    zip,                \* uploads/user_code.zip as last saved
    codeDir,            \* tree under CODE_DIR
    report,             \* analyze_ros_code's local report
    lint_rc,            \* exit status of flake8 in this analysis, if it ran
    returned,           \* value returned by the last analyze_ros_code call
    reportFile,         \* content of REPORT_PATH
    uploadResp,         \* status field of the last upload response
    spc,                \* position of each run-simulation request
    tick,               \* loop index i of the monitored window
    motion_detected,    \* the local flag of run_simulation
    marked,             \* ticks whose response contained "position"
    sim_process,        \* environment process group of the run
    user_node_process,  \* user process group of the run
    log,                \* lines each run has written to LOG_FILE
    ret,                \* value returned by run_simulation
    resp                \* status field of the run-simulation response

avars == <<apc, zip, codeDir, report, lint_rc, returned, reportFile, uploadResp>>
svars == <<spc, tick, motion_detected, marked, sim_process, user_node_process,
           log, ret, resp>>
vars == <<apc, zip, codeDir, report, lint_rc, returned, reportFile, uploadResp,
          spc, tick, motion_detected, marked, sim_process, user_node_process,
          log, ret, resp>>

NoGroup == [launched |-> FALSE, signals |-> 0]

InitSim ==
    /\ spc = [r \in Requests |-> "idle"]
    /\ tick = [r \in Requests |-> 0]
    /\ motion_detected = [r \in Requests |-> FALSE]
    /\ marked = [r \in Requests |-> {}]
    /\ sim_process = [r \in Requests |-> NoGroup]
    /\ user_node_process = [r \in Requests |-> NoGroup]
    /\ log = [r \in Requests |-> <<>>]
    /\ ret = [r \in Requests |-> "NONE"]
    /\ resp = [r \in Requests |-> "NONE"]

Init ==
    /\ apc = "idle"
    /\ zip = [ok |-> FALSE, tree |-> EmptyTree]
    /\ codeDir = EmptyTree
    /\ report = NoReport
    /\ lint_rc = "none"
    /\ returned = NoReport
    /\ reportFile = NoReport
    /\ uploadResp = "NONE"
    /\ InitSim

\* ---------------------------------------------------------------------------
\* Analyser: upload_file and analyze_ros_code
\* ---------------------------------------------------------------------------
UploadNoReturn(a) ==
    /\ apc = "idle"
    /\ zip' = a
    /\ uploadResp' = "NONE"
    /\ lint_rc' = "none"
    /\ codeDir' = IF a.ok THEN ExtractAll(RemoveTree(codeDir), a.tree)
                  ELSE RemoveTree(codeDir)
    /\ report' = InitialReport
    /\ returned' = NoReport
    /\ apc' = "structure"
    /\ UNCHANGED <<reportFile>>
    /\ UNCHANGED svars

\* upload_file saves the zip and calls analyze_ros_code, which empties
\* CODE_DIR and extracts; a failed extraction returns the FAIL report at once.
Upload(a) ==
    /\ apc = "idle"
    /\ zip' = a
    /\ uploadResp' = "NONE"
    /\ lint_rc' = "none"
    /\ IF a.ok
       THEN /\ codeDir' = ExtractAll(RemoveTree(codeDir), a.tree)
            /\ report' = InitialReport
            /\ returned' = NoReport
            /\ apc' = "structure"
       ELSE /\ codeDir' = RemoveTree(codeDir)
            /\ report' = NoReport
            /\ returned' = ExtractFailReport
            /\ apc' = "respond"
    /\ UNCHANGED <<reportFile>>
    /\ UNCHANGED svars

Structure ==
    /\ apc = "structure"
    /\ report' = StructureStage(report, codeDir)
    /\ apc' = "syntax"
    /\ UNCHANGED <<zip, codeDir, lint_rc, returned, reportFile, uploadResp>>
    /\ UNCHANGED svars

\* flake8 runs only when python files exist; when the call raises, the
\* exception leaves analyze_ros_code and upload_file.
Syntax(lint) ==
    /\ apc = "syntax"
    /\ lint_rc' = IF PythonFiles(codeDir) # <<>> THEN lint ELSE "none"
    /\ IF PythonFiles(codeDir) # <<>> /\ lint = "raise"
       THEN /\ apc' = "idle"
            /\ uploadResp' = "500"
            /\ UNCHANGED report
       ELSE /\ report' = CppCheck(PythonCheck(report, codeDir, lint), codeDir)
            /\ apc' = "analysis"
            /\ UNCHANGED uploadResp
    /\ UNCHANGED <<zip, codeDir, returned, reportFile>>
    /\ UNCHANGED svars

Analysis ==
    /\ apc = "analysis"
    /\ report' = AnalysisStage(report, codeDir)
    /\ apc' = "persist"
    /\ UNCHANGED <<zip, codeDir, lint_rc, returned, reportFile, uploadResp>>
    /\ UNCHANGED svars

\* --- 5. Final Report Generation ---
Persist ==
    /\ apc = "persist"
    /\ reportFile' = report
    /\ returned' = report
    /\ apc' = "respond"
    /\ UNCHANGED <<zip, codeDir, report, lint_rc, uploadResp>>
    /\ UNCHANGED svars

\* upload_file reads REPORT_PATH back and answers with its status.
Respond ==
    /\ apc = "respond"
    /\ uploadResp' = IF reportFile = NoReport THEN "500" ELSE reportFile.status
    /\ apc' = "idle"
    /\ UNCHANGED <<zip, codeDir, report, lint_rc, returned, reportFile>>
    /\ UNCHANGED svars

NextAnalyzer ==
    \/ \E a \in Archives : Upload(a)
    \/ Structure
    \/ \E lint \in LintOutcomes : Syntax(lint)
    \/ Analysis
    \/ Persist
    \/ Respond

SpecAnalyzer == Init /\ [][NextAnalyzer]_vars

\* ---------------------------------------------------------------------------
\* Simulation controller: run_sim and run_simulation
\* ---------------------------------------------------------------------------
\* What one telemetry query can do: print a payload with the marker, print
\* something without it, exceed its timeout, or fail to start (OSError).
QueryOutcomes == {"marker", "nomarker", "timeout", "error"}

\* os.killpg(os.getpgid(pid), SIGTERM): delivered, or raises
\* (ProcessLookupError, PermissionError).
KillOutcomes == {"ok", "raise"}

GateOpen(file) == file # NoReport

\* run_sim's precondition on the persisted report
Gate(file) == file # NoReport /\ file.status # "FAIL"

MotionLast(motion, outcome) == outcome = "marker"

MotionLostOnTimeout(motion, outcome) ==
    IF outcome = "marker" THEN TRUE
    ELSE IF outcome = "timeout" THEN FALSE ELSE motion

\* motion_detected after one tick of the monitored window
MotionAfter(motion, outcome) ==
    IF outcome = "marker" THEN TRUE ELSE motion

\* success_status = "PASS" if motion_detected else "FAIL"
SuccessStatus(motion) == IF motion THEN "PASS" ELSE "FAIL"

\* One line of the log.
Line(kind) == [kind |-> kind]

TickEntriesSilentTimeout(outcome, i) ==
    CASE outcome = "marker" ->
            << [kind |-> "confirmed", at |-> i * poll_interval] >>
      [] outcome = "nomarker" ->
            << [kind |-> "unconfirmed", at |-> i * poll_interval] >>
      [] OTHER -> <<>>

\* what tick i writes to the log for a query that returned or timed out
TickEntries(outcome, i) ==
    CASE outcome = "marker" ->
            << [kind |-> "confirmed", at |-> i * poll_interval] >>
      [] outcome = "nomarker" ->
            << [kind |-> "unconfirmed", at |-> i * poll_interval] >>
      [] OTHER ->
            << [kind |-> "timed_out", at |-> i * poll_interval] >>

Launched(g) == [g EXCEPT !.launched = TRUE]
Signalled(g) == [g EXCEPT !.signals = @ + 1]

\* The request is refused, or run_simulation is entered.
RunSim(r) ==
    /\ spc[r] = "idle"
    /\ IF Gate(reportFile)
       THEN /\ spc' = [spc EXCEPT ![r] = "launch_env"]
            /\ log' = [log EXCEPT ![r] = << Line("start") >>]
            /\ UNCHANGED resp
       ELSE /\ spc' = [spc EXCEPT ![r] = "refused"]
            /\ resp' = [resp EXCEPT ![r] =
                          IF reportFile = NoReport THEN "ERROR" ELSE "ABORTED"]
            /\ UNCHANGED log
    /\ UNCHANGED <<tick, motion_detected, marked, sim_process,
                   user_node_process, ret>>
    /\ UNCHANGED avars

LaunchEnvNoReturn(r, ok) ==
    /\ spc[r] = "launch_env"
    /\ IF ok
       THEN /\ sim_process' = [sim_process EXCEPT ![r] = Launched(@)]
            /\ log' = [log EXCEPT ![r] = Append(@, Line("env_pid"))]
       ELSE /\ log' = [log EXCEPT ![r] = Append(@, Line("env_error"))]
            /\ UNCHANGED sim_process
    /\ spc' = [spc EXCEPT ![r] = "stabilize"]
    /\ UNCHANGED <<ret, resp>>
    /\ UNCHANGED <<tick, motion_detected, marked, user_node_process>>
    /\ UNCHANGED avars

\* --- 1. Launch UR5e with custom world --- (Popen inside try/except)
LaunchEnv(r, ok) ==
    /\ spc[r] = "launch_env"
    /\ IF ok
       THEN /\ sim_process' = [sim_process EXCEPT ![r] = Launched(@)]
            /\ log' = [log EXCEPT ![r] = Append(@, Line("env_pid"))]
            /\ spc' = [spc EXCEPT ![r] = "stabilize"]
            /\ UNCHANGED <<ret, resp>>
       ELSE /\ log' = [log EXCEPT ![r] = Append(@, Line("env_error"))]
            /\ ret' = [ret EXCEPT ![r] = "False"]
            /\ resp' = [resp EXCEPT ![r] = "False"]
            /\ spc' = [spc EXCEPT ![r] = "returned"]
            /\ UNCHANGED sim_process
    /\ UNCHANGED <<tick, motion_detected, marked, user_node_process>>
    /\ UNCHANGED avars

\* --- 2. Wait for Gazebo/ROS to be ready ---
Stabilize(r) ==
    /\ spc[r] = "stabilize"
    /\ spc' = [spc EXCEPT ![r] = "launch_user"]
    /\ log' = [log EXCEPT ![r] = Append(@, Line("waiting"))]
    /\ UNCHANGED <<tick, motion_detected, marked, sim_process,
                   user_node_process, ret, resp>>
    /\ UNCHANGED avars

\* --- 3. Run the user's ROS 2 node --- (Popen outside any try); the loop
\* variables of stage 4 are initialised on the way.
LaunchUser(r, ok) ==
    /\ spc[r] = "launch_user"
    /\ IF ok
       THEN /\ user_node_process' = [user_node_process EXCEPT ![r] = Launched(@)]
            /\ motion_detected' = [motion_detected EXCEPT ![r] = FALSE]
            /\ tick' = [tick EXCEPT ![r] = 0]
            /\ log' = [log EXCEPT ![r] = @ \o << Line("user_pid"), Line("running") >>]
            /\ spc' = [spc EXCEPT ![r] = "monitor"]
            /\ UNCHANGED resp
       ELSE /\ spc' = [spc EXCEPT ![r] = "raised"]
            /\ resp' = [resp EXCEPT ![r] = "500"]
            /\ UNCHANGED <<user_node_process, motion_detected, tick, log>>
    /\ UNCHANGED <<marked, sim_process, ret>>
    /\ UNCHANGED avars

\* One iteration of the monitored window: sleep, query, log.
Tick(r, outcome) ==
    /\ spc[r] = "monitor"
    /\ tick[r] < NumTicks
    /\ IF outcome = "error"
       THEN /\ spc' = [spc EXCEPT ![r] = "raised"]
            /\ resp' = [resp EXCEPT ![r] = "500"]
            /\ UNCHANGED <<tick, motion_detected, marked, log>>
       ELSE /\ motion_detected' = [motion_detected EXCEPT ![r] =
                                     MotionAfter(@, outcome)]
            /\ marked' = [marked EXCEPT ![r] =
                            IF outcome = "marker" THEN @ \cup {tick[r]} ELSE @]
            /\ log' = [log EXCEPT ![r] = @ \o TickEntries(outcome, tick[r])]
            /\ tick' = [tick EXCEPT ![r] = @ + 1]
            /\ UNCHANGED <<spc, resp>>
    /\ UNCHANGED <<sim_process, user_node_process, ret>>
    /\ UNCHANGED avars

KillUserFirst(r, k) ==
    /\ spc[r] = "monitor"
    /\ tick[r] = NumTicks
    /\ log' = [log EXCEPT ![r] = Append(@, Line("end"))]
    /\ IF k = "ok"
       THEN /\ user_node_process' = [user_node_process EXCEPT ![r] = Signalled(@)]
            /\ spc' = [spc EXCEPT ![r] = "kill_user"]
            /\ UNCHANGED resp
       ELSE /\ spc' = [spc EXCEPT ![r] = "raised"]
            /\ resp' = [resp EXCEPT ![r] = "500"]
            /\ UNCHANGED user_node_process
    /\ UNCHANGED <<tick, motion_detected, marked, sim_process, ret>>
    /\ UNCHANGED avars

\* --- 5. Cleanup ---, first killpg
KillEnv(r, k) ==
    /\ spc[r] = "monitor"
    /\ tick[r] = NumTicks
    /\ log' = [log EXCEPT ![r] = Append(@, Line("end"))]
    /\ IF k = "ok"
       THEN /\ sim_process' = [sim_process EXCEPT ![r] = Signalled(@)]
            /\ spc' = [spc EXCEPT ![r] = "kill_user"]
            /\ UNCHANGED resp
       ELSE /\ spc' = [spc EXCEPT ![r] = "raised"]
            /\ resp' = [resp EXCEPT ![r] = "500"]
            /\ UNCHANGED sim_process
    /\ UNCHANGED <<tick, motion_detected, marked, user_node_process, ret>>
    /\ UNCHANGED avars

\* second killpg
KillUser(r, k) ==
    /\ spc[r] = "kill_user"
    /\ IF k = "ok"
       THEN /\ user_node_process' = [user_node_process EXCEPT ![r] = Signalled(@)]
            /\ spc' = [spc EXCEPT ![r] = "verdict"]
            /\ UNCHANGED resp
       ELSE /\ spc' = [spc EXCEPT ![r] = "raised"]
            /\ resp' = [resp EXCEPT ![r] = "500"]
            /\ UNCHANGED user_node_process
    /\ UNCHANGED <<tick, motion_detected, marked, sim_process, log, ret>>
    /\ UNCHANGED avars

\* grace sleep, verdict, return; run_sim answers with the returned value.
Verdict(r) ==
    /\ spc[r] = "verdict"
    /\ ret' = [ret EXCEPT ![r] = SuccessStatus(motion_detected[r])]
    /\ resp' = [resp EXCEPT ![r] = SuccessStatus(motion_detected[r])]
    /\ log' = [log EXCEPT ![r] =
                 Append(@, [kind |-> "result",
                            status |-> SuccessStatus(motion_detected[r])])]
    /\ spc' = [spc EXCEPT ![r] = "returned"]
    /\ UNCHANGED <<tick, motion_detected, marked, sim_process, user_node_process>>
    /\ UNCHANGED avars

\* One step of request r.
SimStep(r) ==
    \/ RunSim(r)
    \/ \E ok \in BOOLEAN : LaunchEnv(r, ok)
    \/ Stabilize(r)
    \/ \E ok \in BOOLEAN : LaunchUser(r, ok)
    \/ \E o \in QueryOutcomes : Tick(r, o)
    \/ \E k \in KillOutcomes : KillEnv(r, k)
    \/ \E k \in KillOutcomes : KillUser(r, k)
    \/ Verdict(r)

NextSim == \E r \in Runs : SimStep(r)

\* The threaded server: every request thread may step at any time.
NextConc == \E r \in Requests : SimStep(r)

\* Reports the analyser can have persisted when a run-simulation request
\* arrives: one submission per final status.
GateTrees ==
    { t \in Trees : /\ t.py = <<>> /\ ~t.cpp /\ ~t.cmake
                    /\ t.package_xml => t.setup_py }

FinalReport(tree, lint) ==
    AnalysisStage(CppCheck(PythonCheck(StructureStage(InitialReport, tree),
                                       tree, lint), tree), tree)

PersistedReports ==
    { FinalReport(t, lint) : t \in GateTrees, lint \in {"zero", "nonzero"} }

InitGate ==
    /\ apc = "idle"
    /\ zip = [ok |-> FALSE, tree |-> EmptyTree]
    /\ codeDir = EmptyTree
    /\ report = NoReport
    /\ lint_rc = "none"
    /\ returned = NoReport
    /\ reportFile \in {NoReport} \cup PersistedReports
    /\ uploadResp = "NONE"
    /\ InitSim

SpecSim == InitGate /\ [][NextSim]_vars

SpecConc == InitGate /\ [][NextConc]_vars

Next == NextAnalyzer \/ NextSim

Spec == Init /\ [][Next]_vars

\* ---------------------------------------------------------------------------
\* Properties
\* ---------------------------------------------------------------------------
Ended(r) == spc[r] \in {"returned", "raised"}

\* C1: in every call of run_simulation that launched the environment process
\* group, each launched process group has been sent the termination signal
\* exactly once by the time the call ends, whichever way it ends.
C1_TeardownOnEveryExit ==
    \A r \in Runs :
        (Ended(r) /\ sim_process[r].launched) =>
            /\ sim_process[r].signals = 1
            /\ user_node_process[r].launched => user_node_process[r].signals = 1

\* C2: a run that reaches the verdict has gone through all 4 ticks and returns
\* PASS exactly when at least one tick's response contained the marker, and
\* FAIL when none did.
C2_VerdictIffMarked ==
    \A r \in Runs :
        (spc[r] = "returned" /\ user_node_process[r].launched) =>
            /\ NumTicks = 4
            /\ tick[r] = 4
            /\ marked[r] \subseteq 0..3
            /\ (ret[r] = "PASS") <=> (marked[r] # {})
            /\ (marked[r] = {}) => (ret[r] = "FAIL")

\* a PASS verdict owed to the first tick alone, the later ticks unconfirmed
C2_Witness ==
    \E r \in Runs :
        spc[r] = "returned" /\ marked[r] = {0} /\ ret[r] = "PASS"

\* C3: every call of run_simulation that returns, returns PASS or FAIL, also
\* when launching the environment failed.
C3_ReturnsStatus ==
    \A r \in Runs : spc[r] = "returned" => ret[r] \in {"PASS", "FAIL"}

StructureMissing(tree) ==
    ~tree.package_xml \/ (~tree.cmake /\ ~tree.setup_py)

SafetyFindings(tree) ==
    \E i \in DOMAIN PythonFiles(tree) :
        PythonFiles(tree)[i].loop \/ PythonFiles(tree)[i].value

LatticeStatus(failed, warned) ==
    IF failed THEN "FAIL" ELSE IF warned THEN "WARN" ELSE "PASS"

\* C4: the status of the report an analysis returns is FAIL if extraction
\* failed or the linter exited nonzero, else WARN if the manifest or build
\* descriptor is missing or a safety warning was recorded, else PASS; nothing
\* else of the submission changes it.
C4_StatusIsLattice ==
    returned # NoReport =>
        /\ returned.status =
              LatticeStatus(~zip.ok \/ lint_rc = "nonzero",
                            StructureMissing(zip.tree) \/ SafetyFindings(zip.tree))
        /\ zip.ok =>
              returned.status =
                 LatticeStatus(returned.details.python = "FAIL",
                               \/ returned.details.structure_check # "PASS"
                               \/ returned.details.safety_warnings # <<>>)

\* a complete submission with C++ sources and a node is reported PASS
C4_Witness ==
    /\ returned # NoReport
    /\ returned.status = "PASS"
    /\ zip.tree.cpp
    /\ returned.details.cpp = "PASS"
    /\ returned.details.nodes_found = 1

\* C5: an archive that extracts but lacks package.xml, or lacks both build
\* files, gets structure_check FAIL and an overall status of WARN or FAIL,
\* WARN when no syntax check failed.
C5_StructureMissingWarns ==
    (returned # NoReport /\ zip.ok /\ StructureMissing(zip.tree)) =>
        /\ returned.details.structure_check = "FAIL"
        /\ returned.status \in {"WARN", "FAIL"}
        /\ (returned.details.python # "FAIL" /\ returned.details.cpp # "FAIL")
              => returned.status = "WARN"

\* only the manifest is missing, the linter is content
C5_Witness ==
    /\ returned # NoReport
    /\ zip.ok
    /\ ~zip.tree.package_xml
    /\ zip.tree.setup_py
    /\ lint_rc = "zero"
    /\ returned.status = "WARN"

\* C6: when python files exist and the linter exits nonzero, the python
\* sub-result is FAIL and the overall status is FAIL, whatever the structure
\* check and the safety heuristics found.
C6_LintFailureIsFatal ==
    (returned # NoReport /\ zip.ok /\ PythonFiles(zip.tree) # <<>>
        /\ lint_rc = "nonzero") =>
        /\ returned.details.python = "FAIL"
        /\ returned.status = "FAIL"

\* lint failure with the structure incomplete and a safety warning recorded
C6_Witness ==
    /\ returned # NoReport
    /\ zip.ok
    /\ lint_rc = "nonzero"
    /\ StructureMissing(zip.tree)
    /\ returned.details.safety_warnings # <<>>
    /\ returned.status = "FAIL"

\* position of a status in the order PASS < WARN < FAIL
Rank(s) == CASE s = "PASS" -> 0 [] s = "WARN" -> 1 [] s = "FAIL" -> 2 [] OTHER -> -1

\* C7: within one analysis run no assignment made by the structure, syntax
\* or safety stage lowers the status in the order PASS < WARN < FAIL.
C7_StatusMonotone ==
    [][ (apc \in {"structure", "syntax", "analysis"}) =>
            (Rank(report'.status) >= Rank(report.status)) ]_vars

\* the safety stage met a report that was already FAIL and left it FAIL
C7_Witness ==
    /\ apc = "persist"
    /\ report.status = "FAIL"
    /\ report.details.safety_warnings # <<>>

\* C8: after every completed analysis run, a failed extraction included, the
\* persisted report file equals the report the run returned.
C8_FileEqualsReturned ==
    returned # NoReport => reportFile = returned

GateSatisfied == reportFile # NoReport /\ reportFile.status # "FAIL"

\* C9: run_simulation is entered only with a persisted report whose status is
\* not FAIL; without one, or with a FAIL one, the request is answered
\* ERROR / ABORTED and no process group is launched.
C9_GateBeforeRun ==
    \A r \in Runs :
        /\ spc[r] \notin {"idle", "refused"} => GateSatisfied
        /\ (sim_process[r].launched \/ user_node_process[r].launched)
              => GateSatisfied
        /\ ~GateSatisfied => spc[r] \in {"idle", "refused"}
        /\ spc[r] = "refused" =>
              /\ resp[r] = (IF reportFile = NoReport THEN "ERROR" ELSE "ABORTED")
              /\ ret[r] = "NONE"

\* a request refused because the persisted report is FAIL
C9_Witness ==
    \E r \in Runs :
        /\ spc[r] = "refused"
        /\ reportFile # NoReport
        /\ reportFile.status = "FAIL"
        /\ resp[r] = "ABORTED"

\* C10: a termination signal that fails during teardown does not end the run:
\* once the monitored window is over the run never ends by raising, so both
\* groups get signalled and the verdict is returned.
C10_KillFailureSwallowed ==
    \A r \in Runs : tick[r] = NumTicks => spc[r] # "raised"

\* a run that has opened the log and has not finished its teardown
Active(r) ==
    spc[r] \in {"launch_env", "stabilize", "launch_user", "monitor",
                "kill_user", "verdict"}

\* C11: at most one simulation run is active at any time: no request enters
\* run_simulation (opens the log, launches process groups) while another run
\* has not finished its teardown.
C11_AtMostOneActive ==
    \A r1 \in Requests, r2 \in Requests :
        r1 # r2 => ~(Active(r1) /\ Active(r2))

\* C12: the report of an analysis is a function of the archive analysed and
\* of the linter's outcome alone: the stages see exactly the archive's tree,
\* nothing of an earlier submission, so analysing the same archive again with
\* the same linter outcome gives the same report.
C12_ReportOfArchiveAlone ==
    /\ apc \in {"structure", "syntax", "analysis", "persist"} =>
          codeDir = zip.tree
    /\ apc = "persist" => report = FinalReport(zip.tree, lint_rc)
    /\ returned # NoReport =>
          returned = IF zip.ok THEN FinalReport(zip.tree, lint_rc)
                     ELSE ExtractFailReport

\* the earlier submission was complete and had a node, this one has neither
\* manifest nor python files, and its report shows none of the earlier files
C12_Witness ==
    /\ apc = "persist"
    /\ reportFile # NoReport
    /\ reportFile.details.structure_check = "PASS"
    /\ reportFile.details.nodes_found = 1
    /\ ~zip.tree.package_xml
    /\ PythonFiles(zip.tree) = <<>>
    /\ report.details.structure_check = "FAIL"
    /\ report.details.nodes_found = 0
    /\ report.details.python = "N/A"

\* the kinds of the lines of a log, every tick line shown as "tick"
LogKinds(l) ==
    [i \in 1..Len(l) |->
        IF l[i].kind \in {"confirmed", "unconfirmed", "timed_out"}
        THEN "tick" ELSE l[i].kind]

IsPrefix(a, b) == Len(a) <= Len(b) /\ a = SubSeq(b, 1, Len(a))

\* the lines of a run that goes through every stage, in stage order
FullRunKinds ==
    <<"start", "env_pid", "waiting", "user_pid", "running">>
    \o [i \in 1..NumTicks |-> "tick"] \o <<"end", "result">>

\* the moves between positions that follow the stage order
StageEdges ==
    { <<"idle", "refused">>, <<"idle", "launch_env">>,
      <<"launch_env", "stabilize">>, <<"launch_env", "returned">>,
      <<"stabilize", "launch_user">>,
      <<"launch_user", "monitor">>, <<"launch_user", "raised">>,
      <<"monitor", "kill_user">>, <<"monitor", "raised">>,
      <<"kill_user", "verdict">>, <<"kill_user", "raised">>,
      <<"verdict", "returned">> }

StageOrderAt(r) ==
    /\ spc[r] \in {"idle", "refused", "launch_env", "stabilize", "launch_user"} =>
          /\ ~user_node_process[r].launched
          /\ tick[r] = 0 /\ marked[r] = {}
          /\ sim_process[r].signals = 0 /\ user_node_process[r].signals = 0
    /\ spc[r] \in {"idle", "refused", "launch_env"} => ~sim_process[r].launched
    /\ user_node_process[r].launched =>
          /\ sim_process[r].launched
          /\ IsPrefix(<<"start", "env_pid", "waiting", "user_pid">>,
                      LogKinds(log[r]))
    /\ (tick[r] > 0 \/ marked[r] # {}) => user_node_process[r].launched
    /\ sim_process[r].signals > 0 => tick[r] = NumTicks
    /\ user_node_process[r].signals > 0 => sim_process[r].signals > 0
    /\ sim_process[r].signals <= 1 /\ user_node_process[r].signals <= 1
    /\ ret[r] \in {"PASS", "FAIL"} =>
          /\ sim_process[r].signals = 1 /\ user_node_process[r].signals = 1
          /\ LogKinds(log[r]) = FullRunKinds
    /\ \/ IsPrefix(LogKinds(log[r]), FullRunKinds)
       \/ LogKinds(log[r]) = <<"start", "env_error">>

\* C13: in every simulation run the stages occur in the order environment
\* launch, settle wait, user launch, polling ticks, teardown, verdict, none
\* revisited: the user executable is launched only after the environment and
\* the wait, queries are issued only after the user launch, the environment
\* group is signalled before the user group, and the verdict comes last.
C13_StagesInOrder ==
    /\ [](\A r \in Runs : StageOrderAt(r))
    /\ [][\A r \in Runs :
            (spc'[r] # spc[r]) => (<<spc[r], spc'[r]>> \in StageEdges)]_vars

\* a run that went through every stage and returned its verdict
C13_Witness ==
    \E r \in Runs :
        /\ spc[r] = "returned"
        /\ LogKinds(log[r]) = FullRunKinds
        /\ sim_process[r].signals = 1
        /\ user_node_process[r].signals = 1

EnvLaunchFailed(r) == \E i \in DOMAIN log[r] : log[r][i].kind = "env_error"

\* C14: when launching the environment fails, the run logs the error and
\* returns at once: nothing is logged after the error, there is no settle
\* wait, no user launch, no telemetry query and no termination signal.
C14_EnvFailureReturnsAtOnce ==
    \A r \in Runs :
        EnvLaunchFailed(r) =>
            /\ spc[r] = "returned"
            /\ log[r] = << Line("start"), Line("env_error") >>
            /\ ~sim_process[r].launched
            /\ ~user_node_process[r].launched
            /\ tick[r] = 0 /\ marked[r] = {}
            /\ sim_process[r].signals = 0
            /\ user_node_process[r].signals = 0

\* a run whose environment launch failed has returned
C14_Witness ==
    \E r \in Runs :
        /\ EnvLaunchFailed(r)
        /\ spc[r] = "returned"
        /\ ret[r] = "False"

IsTickLine(e) == e.kind \in {"confirmed", "unconfirmed", "timed_out"}

TickLines(l) == SelectSeq(l, IsTickLine)

\* C15: the monitored window has exactly 4 ticks, 5 time-units apart; every
\* tick that completes writes exactly one log line (confirmed, unconfirmed or
\* timed out); a timeout does not end the window, so a run whose queries all
\* time out logs 4 timed-out lines, keeps motion_detected false and returns
\* FAIL.
C15_FourTicksOneLineEach ==
    \A r \in Runs :
        LET t == TickLines(log[r]) IN
        /\ NumTicks = 4
        /\ tick[r] \in 0..4
        /\ Len(t) = tick[r]
        /\ \A i \in DOMAIN t :
              /\ t[i].at = (i - 1) * 5
              /\ (t[i].kind = "confirmed") <=> ((i - 1) \in marked[r])
        /\ ret[r] \in {"PASS", "FAIL"} => Len(t) = 4
        /\ (spc[r] = "returned" /\ Len(t) = 4
              /\ \A i \in DOMAIN t : t[i].kind = "timed_out") =>
              (~motion_detected[r] /\ ret[r] = "FAIL")

\* every query of the run timed out and the run returned its verdict
C15_Witness ==
    \E r \in Runs :
        /\ spc[r] = "returned"
        /\ Len(TickLines(log[r])) = 4
        /\ \A i \in 1..4 : TickLines(log[r])[i].kind = "timed_out"
        /\ ret[r] = "FAIL"

\* C16: motion_detected is a latch: false when the monitored window starts,
\* set only by a tick whose response contains the marker, and never cleared
\* by a later tick, confirmed or not, nor by the teardown.
C16_MotionLatch ==
    /\ [](\A r \in Runs :
            (spc[r] \in {"idle", "refused", "launch_env", "stabilize",
                         "launch_user"}
             \/ (spc[r] = "monitor" /\ tick[r] = 0)) => ~motion_detected[r])
    /\ [][\A r \in Runs :
            /\ motion_detected[r] => motion_detected'[r]
            /\ (~motion_detected[r] /\ motion_detected'[r]) =>
                  /\ spc[r] = "monitor"
                  /\ tick'[r] = tick[r] + 1
                  /\ marked'[r] = marked[r] \cup {tick[r]}
                  /\ log'[r] = Append(log[r], [kind |-> "confirmed",
                                               at |-> tick[r] * 5])]_vars

\* set at the second tick and still set after a timed-out and an unconfirmed
\* tick
C16_Witness ==
    \E r \in Runs :
        /\ spc[r] = "monitor"
        /\ tick[r] = 4
        /\ marked[r] = {1}
        /\ TickLines(log[r])[3].kind = "timed_out"
        /\ TickLines(log[r])[4].kind = "unconfirmed"
        /\ motion_detected[r]

\* an upload has been received since the server started
Uploaded == apc # "idle" \/ uploadResp # "NONE"

\* C17: when extraction of the archive fails, analyze_ros_code returns a
\* report with status FAIL whose summary is the extraction error, and no
\* later stage runs: no structure check, no linter call, no source scan.
C17_ExtractFailureReturnsFail ==
    (Uploaded /\ ~zip.ok) =>
        /\ apc \in {"respond", "idle"}
        /\ returned # NoReport
        /\ returned.status = "FAIL"
        /\ returned.summary = "Failed to extract ZIP"
        /\ report = NoReport
        /\ lint_rc = "none"
        /\ codeDir = EmptyTree

\* the analysis of a corrupt archive has returned, after an earlier analysis
\* that ran all its stages
C17_Witness ==
    /\ apc = "respond"
    /\ ~zip.ok
    /\ returned = ExtractFailReport
    /\ reportFile # NoReport

\* C18: the summary of a report explains a finding of the level of its
\* status: the extraction or lint failure when FAIL (a safety warning found
\* later does not replace it), a structure or safety warning when WARN, the
\* passed message when PASS.
C18_SummaryMatchesStatus ==
    returned # NoReport =>
        /\ returned.status = "FAIL" =>
              returned.summary \in
                 {"Failed to extract ZIP",
                  "Code Failed: Python syntax errors found (Flake8)."}
        /\ returned.status = "WARN" =>
              returned.summary \in
                 {"Structure Warning: Missing package.xml or build file.",
                  "Code Passed, but safety warnings found."}
        /\ returned.status = "PASS" => returned.summary = "Code Passed Checks"
        /\ returned.status \in {"PASS", "WARN", "FAIL"}

\* a lint failure followed by a safety warning keeps the lint summary
C18_Witness ==
    /\ returned # NoReport
    /\ zip.ok
    /\ returned.details.safety_warnings # <<>>
    /\ returned.summary = "Code Failed: Python syntax errors found (Flake8)."

DetailFields ==
    {"structure_check", "python", "cpp", "nodes_found", "publishers",
     "subscribers", "safety_warnings"}

\* C19: every report analyze_ros_code returns has a status among PASS, WARN
\* and FAIL and details holding the structure check (PASS or FAIL), the python
\* and cpp sub-results (PASS, FAIL or N/A), nodes_found >= 0 and the three
\* lists; a sub-result is N/A exactly when the tree has no file of that
\* language.
C19_ReportConforms ==
    returned # NoReport =>
        /\ returned.status \in {"PASS", "WARN", "FAIL"}
        /\ DetailFields \subseteq DOMAIN returned.details
        /\ returned.details.structure_check \in {"PASS", "FAIL"}
        /\ returned.details.python \in {"PASS", "FAIL", "N/A"}
        /\ returned.details.cpp \in {"PASS", "FAIL", "N/A"}
        /\ returned.details.nodes_found >= 0
        /\ DOMAIN returned.details.publishers
              = 1..Len(returned.details.publishers)
        /\ DOMAIN returned.details.subscribers
              = 1..Len(returned.details.subscribers)
        /\ DOMAIN returned.details.safety_warnings
              = 1..Len(returned.details.safety_warnings)
        /\ (returned.details.python = "N/A") <=> (PythonFiles(zip.tree) = <<>>)
        /\ (returned.details.cpp = "N/A") <=> ~zip.tree.cpp

====
